---- MODULE Spec2Model ----
(***************************************************************************)
(* Header component of the Grievance Portal (src/components/Header.tsx):   *)
(* the notification synchronisation lifecycle (activation effect, realtime *)
(* channel, fetch), the mark-as-read, logout and toggle handlers, together *)
(* with the collaborators they talk to (auth session, notification table,  *)
(* realtime service, router).                                              *)
(***************************************************************************)
EXTENDS Integers, Sequences, FiniteSets, TLC

\* ------------------------------------------------------------------ bounds
MaxActivations == 2   \* runs of initialize() (effect runs with no external list)
MaxEvents == 2        \* events from outside: clicks, new props, unmount, inserted rows
MaxMarks == 1         \* clicks on a notification entry
MaxLogouts == 1       \* clicks on the logout button

\* .limit(10) of the fetch query
Limit == 10

\* the user of the session, and another user of the portal
Me == "me"
Other == "other"

Min(a, b) == IF a < b THEN a ELSE b

VARIABLES
    mounted,                        \* the component instance is mounted
    session,                        \* auth state: TRUE when getSession() yields a session
    externalNotifications,          \* prop: [supplied, list]
    externalToggleNotifications,    \* prop supplied?
    externalMarkNotificationAsRead, \* prop supplied?
    externalShowNotifications,      \* prop: [supplied, value]
    localNotifications,             \* useState<Notification[]>([])
    localShowNotifications,         \* useState(false)
    renderedShow,                   \* localShowNotifications as captured by the last render
    acts,                           \* runs of initialize(): 1..MaxActivations -> [pc, data
                                    \* (the rows the query returned), late (history: the
                                    \* fetch ended when its activation was no longer in place)]
    nActs,                          \* number of runs of initialize() started
    activeAct,                      \* the run whose effect is in place, 0 if none
    channels,                       \* realtime channels subscribed (named by the run that opened them)
    queue,                          \* per channel: INSERT events not yet delivered
    rows,                           \* the notification table, in creation order; id = index
    nEvents,                        \* events from outside handled so far
    marks,                          \* runs of handleMarkNotificationAsRead: [pc, id,
                                    \* error (the update's answer), local (the entry
                                    \* clicked was one of the local list)]
    logouts,                        \* runs of handleLogout
    router,                         \* calls made on the router, in order
    externalCalls,                  \* the last call made on a handler of the parent
    role,                           \* prop: 'user' | 'employee' | 'admin'
    renderedProfileLink,            \* the last render put the Profile link in the header
    nToggles,                       \* history: toggles that took the local branch
    delivered,                      \* history: ids of the rows the channel callback was given
    renderedNotifications           \* the list the last render displayed and counted

vars == <<mounted, session, externalNotifications, externalToggleNotifications,
          externalMarkNotificationAsRead, externalShowNotifications,
          localNotifications, localShowNotifications, renderedShow, acts, nActs,
          activeAct, channels, queue, rows, nEvents, marks, logouts, router,
          externalCalls, role, renderedProfileLink, nToggles, delivered,
          renderedNotifications>>

\* the role prop and what the render made of it, and the history variables
aux == <<role, renderedProfileLink, nToggles, delivered, renderedNotifications>>

props == <<externalNotifications, externalToggleNotifications,
           externalMarkNotificationAsRead, externalShowNotifications>>
compState == <<localNotifications, localShowNotifications>>
syncState == <<acts, nActs, activeAct, channels>>
otherOps == <<marks, logouts, router, externalCalls>>

Acts == 1..MaxActivations
MarkOps == 1..MaxMarks
LogoutOps == 1..MaxLogouts

\* ------------------------------------------------------------- data model
\* interface Notification, reduced to the fields the component's logic reads
Notification(i, r) == [id |-> i, is_read |-> r]

NoList == [supplied |-> FALSE, list |-> <<>>]
SomeList(l) == [supplied |-> TRUE, list |-> l]
NoFlag == [supplied |-> FALSE, value |-> FALSE]
SomeFlag(b) == [supplied |-> TRUE, value |-> b]

\* lists a parent may pass as the notifications prop
ExternalLists == { <<>>, <<Notification(1, FALSE)>> }

\* values of the notifications and showNotifications props (absent or supplied)
ListValues == {NoList} \cup { SomeList(l) : l \in ExternalLists }
FlagValues == {NoFlag, SomeFlag(TRUE), SomeFlag(FALSE)}

Ids(list) == { list[i].id : i \in 1..Len(list) }

\* the choice of the list with an empty external list taken as absent
notificationsEmptyIsAbsent ==
    IF externalNotifications.supplied /\ externalNotifications.list # <<>>
    THEN externalNotifications.list
    ELSE localNotifications

\* const notifications = externalNotifications || localNotifications
notifications ==
    IF externalNotifications.supplied THEN externalNotifications.list
    ELSE localNotifications

\* const showNotifications = typeof externalShowNotifications !== 'undefined' ? ... : ...
showNotifications ==
    IF externalShowNotifications.supplied THEN externalShowNotifications.value
    ELSE localShowNotifications

\* role: 'user' | 'employee' | 'admin'
Roles == {"user", "employee", "admin"}

\* a render that shows the Profile link to every role but 'user'
ProfileLinkNotUser(r) == r # "user"

\* {role === 'employee' && (<Link href="/dashboard/employee/profile">...)}
ProfileLink(r) == r = "employee"

\* {notifications.length > 0 && <span>{notifications.length}</span>}
badge == Len(notifications)

\* the number the badge of the last render shows (no badge when it is 0)
renderedBadge == Len(renderedNotifications)

\* ------------------------------------------------------------------ store
RECURSIVE SortDesc(_)
SortDesc(S) ==
    IF S = {} THEN <<>>
    ELSE LET m == CHOOSE x \in S : \A y \in S : y <= x
         IN <<m>> \o SortDesc(S \ {m})

\* the query without .limit(10)
QueryUnreadNoLimit(tbl, u) ==
    LET hit == { i \in 1..Len(tbl) : tbl[i].user = u /\ ~tbl[i].is_read }
        ord == SortDesc(hit)
    IN [k \in 1..Len(ord) |-> Notification(ord[k], tbl[ord[k]].is_read)]

\* .eq('user_id', u).eq('is_read', false).order('created_at', desc).limit(10)
QueryUnread(tbl, u) ==
    LET hit == { i \in 1..Len(tbl) : tbl[i].user = u /\ ~tbl[i].is_read }
        ord == SortDesc(hit)
        n == Min(Len(ord), Limit)
    IN [k \in 1..n |-> Notification(ord[k], tbl[ord[k]].is_read)]

\* .update({ is_read: true }).eq('id', id)
UpdateRead(tbl, id) ==
    [i \in 1..Len(tbl) |-> IF i = id THEN [tbl[i] EXCEPT !.is_read = TRUE] ELSE tbl[i]]

\* (prev) => [payload.new as Notification, ...prev]
onInsert(prev, new) == <<new>> \o prev

\* the filter with its test inverted (=== for !==): keeps the clicked entry only
RECURSIVE FilterInverted(_, _)
FilterInverted(prev, notificationId) ==
    IF prev = <<>> THEN <<>>
    ELSE IF Head(prev).id = notificationId
         THEN <<Head(prev)>> \o FilterInverted(Tail(prev), notificationId)
         ELSE FilterInverted(Tail(prev), notificationId)

\* (prev) => prev.filter((notif) => notif.id !== notificationId)
RECURSIVE Filter(_, _)
Filter(prev, notificationId) ==
    IF prev = <<>> THEN <<>>
    ELSE IF Head(prev).id # notificationId
         THEN <<Head(prev)>> \o Filter(Tail(prev), notificationId)
         ELSE Filter(Tail(prev), notificationId)

\* a state update on an unmounted component is dropped by React
SetState(old, new) == IF mounted THEN new ELSE old


\* ------------------------------------------------------------------- Init
IdleAct == [pc |-> "idle", data |-> <<>>, late |-> FALSE]
StartedAct == [pc |-> "getSession", data |-> <<>>, late |-> FALSE]
IdleMark == [pc |-> "idle", id |-> 0, error |-> FALSE, local |-> FALSE]

\* notification tables the component may be mounted against: a row of another
\* user, then k unread rows of the session's user
InitialRows(k) ==
    [i \in 1..(k + 1) |-> [user |-> IF i = 1 THEN Other ELSE Me, is_read |-> FALSE]]
InitialCounts == {0, 2}

\* the cleanup React holds for the activation effect: the effect callback
\* returns nothing (the function returned at line 65 is the result of the
\* promise of initialize(), which line 71 drops), so no channel is released
EffectCleanup(chs) == {}

\* the state after the first render against the table tbl
InitFrom(tbl) ==
    /\ mounted = TRUE
    /\ session \in BOOLEAN
    /\ externalNotifications \in ListValues
    /\ externalToggleNotifications \in BOOLEAN
    /\ externalMarkNotificationAsRead \in BOOLEAN
    /\ externalShowNotifications \in FlagValues
    /\ localNotifications = <<>>
    /\ localShowNotifications = FALSE
    /\ renderedShow = FALSE
    \* first run of the effect, after the first render
    /\ nActs = IF externalNotifications.supplied THEN 0 ELSE 1
    /\ activeAct = nActs
    /\ acts = [a \in Acts |-> IF a <= nActs THEN StartedAct ELSE IdleAct]
    /\ channels = {}
    /\ queue = [a \in Acts |-> <<>>]
    /\ rows = tbl
    /\ nEvents = 0
    /\ marks = [m \in MarkOps |-> IdleMark]
    /\ logouts = [l \in LogoutOps |-> "idle"]
    /\ router = <<>>
    /\ externalCalls = "none"
    /\ role \in Roles
    /\ renderedProfileLink = ProfileLink(role)
    /\ nToggles = 0
    /\ delivered = {}
    /\ renderedNotifications = notifications

Init == \E k \in InitialCounts : InitFrom(InitialRows(k))

\* mounted against a table that holds as many unread rows of the user as the
\* query returns at most
LimitInit == InitFrom(InitialRows(Limit))

\* an event from outside the component is handled
Event ==
    /\ nEvents < MaxEvents
    /\ nEvents' = nEvents + 1

\* ------------------------------------------------- props, effect, unmount
\* The parent re-renders the component with new props; the effect
\* useEffect(..., [externalNotifications]) re-runs when the list prop changed:
\* the previous cleanup runs, then initialize() starts if no list is supplied.
SetProps(e, t, m, s) ==
    /\ mounted
    /\ <<e, t, m, s>> # props
    /\ Event
    /\ externalNotifications' = e
    /\ externalToggleNotifications' = t
    /\ externalMarkNotificationAsRead' = m
    /\ externalShowNotifications' = s
    /\ renderedShow' = localShowNotifications
    /\ renderedProfileLink' = ProfileLink(role)
    /\ IF e = externalNotifications
       THEN UNCHANGED <<acts, nActs, activeAct, channels>>
       ELSE /\ channels' = channels \ EffectCleanup(channels \cap {activeAct})
            /\ IF e.supplied
               THEN /\ activeAct' = 0
                    /\ UNCHANGED <<acts, nActs>>
               ELSE /\ nActs < MaxActivations
                    /\ nActs' = nActs + 1
                    /\ activeAct' = nActs + 1
                    /\ acts' = [acts EXCEPT ![nActs + 1] = StartedAct]
    /\ UNCHANGED <<mounted, session, compState, queue, rows, otherOps,
                   role, nToggles, delivered>>
    /\ renderedNotifications' = IF mounted THEN notifications' ELSE renderedNotifications

\* The parent re-renders the component with another role: the effect's
\* dependency has not changed, so only the render runs.
SetRole(r) ==
    /\ mounted
    /\ r # role
    /\ Event
    /\ role' = r
    /\ renderedProfileLink' = ProfileLink(r)
    /\ renderedShow' = localShowNotifications
    /\ UNCHANGED <<mounted, session, props, compState, syncState, queue, rows,
                   otherOps, nToggles, delivered>>
    /\ UNCHANGED renderedNotifications

\* The component is removed: React runs the effect's cleanup.
Unmount ==
    /\ mounted
    /\ Event
    /\ mounted' = FALSE
    /\ activeAct' = 0
    /\ channels' = channels \ EffectCleanup(channels \cap {activeAct})
    /\ UNCHANGED <<session, props, compState, renderedShow, acts, nActs, queue,
                   rows, otherOps,
                   aux>>

\* A state change is followed by a re-render, whose closures capture the new state.
Render ==
    /\ mounted
    /\ renderedShow # localShowNotifications
    /\ renderedShow' = localShowNotifications
    /\ renderedProfileLink' = ProfileLink(role)
    /\ UNCHANGED <<mounted, session, props, compState, syncState, queue,
                   rows, nEvents, otherOps,
                   role, nToggles, delivered>>
    /\ UNCHANGED renderedNotifications

\* ------------------------------------------------------------ initialize
\* initialize(): getSession() resolved with a session: the channel is opened
\* and subscribed, and fetchNotifications() runs up to its own getSession().
InitializeSubscribe(a) ==
    /\ acts[a].pc = "getSession"
    /\ session
    /\ channels' = channels \cup {a}
    /\ acts' = [acts EXCEPT ![a].pc = "fetchSession"]
    /\ UNCHANGED <<mounted, session, props, compState, renderedShow, nActs, activeAct,
                   queue, rows, nEvents, otherOps,
                   aux>>

\* initialize() without its if (session): subscribes and fetches with no session
InitializeIgnoresSession(a) ==
    /\ acts[a].pc = "getSession"
    /\ ~session
    /\ channels' = channels \cup {a}
    /\ acts' = [acts EXCEPT ![a].pc = "fetchSession"]
    /\ UNCHANGED <<mounted, session, props, compState, renderedShow, nActs, activeAct,
                   queue, rows, nEvents, otherOps,
                   aux>>

\* initialize(): getSession() resolved with no session: nothing is done.
InitializeNoSession(a) ==
    /\ acts[a].pc = "getSession"
    /\ ~session
    /\ acts' = [acts EXCEPT ![a].pc = "done"]
    /\ UNCHANGED <<mounted, session, props, compState, renderedShow, nActs, activeAct,
                   channels, queue, rows, nEvents, otherOps,
                   aux>>

\* fetchNotifications(): getSession() resolved with a session: the query is
\* sent, and the store answers with the rows selected at that moment or an error.
FetchQuery(a, ok) ==
    /\ acts[a].pc = "fetchSession"
    /\ session
    /\ acts' = [acts EXCEPT ![a].pc = IF ok THEN "data" ELSE "error",
                            ![a].data = IF ok THEN QueryUnread(rows, Me) ELSE <<>>]
    /\ UNCHANGED <<mounted, session, props, compState, renderedShow, nActs, activeAct,
                   channels, queue, rows, nEvents, otherOps,
                   aux>>

\* fetchNotifications(): if (!session) return
FetchNoSession(a) ==
    /\ acts[a].pc = "fetchSession"
    /\ ~session
    /\ acts' = [acts EXCEPT ![a].pc = "done"]
    /\ UNCHANGED <<mounted, session, props, compState, renderedShow, nActs, activeAct,
                   channels, queue, rows, nEvents, otherOps,
                   aux>>

\* a fetch that merges: the entries the result does not hold are kept behind it
FetchSuccessMerges(a) ==
    /\ acts[a].pc = "data"
    /\ localNotifications' =
           SetState(localNotifications,
                    acts[a].data \o SelectSeq(localNotifications,
                                              LAMBDA n : n.id \notin Ids(acts[a].data)))
    /\ acts' = [acts EXCEPT ![a] = [pc |-> "done", data |-> <<>>,
                                    late |-> a # activeAct]]
    /\ UNCHANGED <<mounted, session, props, localShowNotifications, renderedShow, nActs,
                   activeAct, channels, queue, rows, nEvents, otherOps,
                   role, renderedProfileLink, nToggles, delivered>>
    /\ renderedNotifications' = IF mounted THEN notifications' ELSE renderedNotifications

\* a fetch that discards its result when its run is no longer the one in place
FetchSuccessGuarded(a) ==
    /\ acts[a].pc = "data"
    /\ localNotifications' = IF a = activeAct
                             THEN SetState(localNotifications, acts[a].data)
                             ELSE localNotifications
    /\ acts' = [acts EXCEPT ![a] = [pc |-> "done", data |-> <<>>,
                                    late |-> a # activeAct]]
    /\ UNCHANGED <<mounted, session, props, localShowNotifications, renderedShow, nActs,
                   activeAct, channels, queue, rows, nEvents, otherOps,
                   role, renderedProfileLink, nToggles, delivered>>
    /\ renderedNotifications' = IF mounted THEN notifications' ELSE renderedNotifications

\* fetchNotifications(): setLocalNotifications(data || [])
FetchSuccess(a) ==
    /\ acts[a].pc = "data"
    /\ localNotifications' = SetState(localNotifications, acts[a].data)
    /\ acts' = [acts EXCEPT ![a] = [pc |-> "done", data |-> <<>>,
                                    late |-> a # activeAct]]
    /\ UNCHANGED <<mounted, session, props, localShowNotifications, renderedShow, nActs,
                   activeAct, channels, queue, rows, nEvents, otherOps,
                   role, renderedProfileLink, nToggles, delivered>>
    /\ renderedNotifications' = IF mounted THEN notifications' ELSE renderedNotifications

\* the error branch without its return: the list is set to the absent data
FetchErrorFallsThrough(a) ==
    /\ acts[a].pc = "error"
    /\ localNotifications' = SetState(localNotifications, acts[a].data)
    /\ acts' = [acts EXCEPT ![a].pc = "failed", ![a].late = a # activeAct]
    /\ UNCHANGED <<mounted, session, props, localShowNotifications, renderedShow, nActs,
                   activeAct, channels, queue, rows, nEvents, otherOps, role, renderedProfileLink, nToggles, delivered>>
    /\ renderedNotifications' = IF mounted THEN notifications' ELSE renderedNotifications

\* fetchNotifications(): if (error) { console.error(...); return; }
FetchError(a) ==
    /\ acts[a].pc = "error"
    /\ acts' = [acts EXCEPT ![a].pc = "failed", ![a].late = a # activeAct]
    /\ UNCHANGED <<mounted, session, props, compState, renderedShow, nActs, activeAct,
                   channels, queue, rows, nEvents, otherOps,
                   aux>>

\* --------------------------------------------------------------- realtime
\* A row of the session's user is inserted into the notification table; every
\* subscribed channel (filter user_id=eq.<session user>) is sent its INSERT event.
StoreInsert(r) ==
    /\ Event
    /\ rows' = Append(rows, [user |-> Me, is_read |-> r])
    /\ queue' = [c \in Acts |->
                   IF c \in channels
                   THEN Append(queue[c], Notification(Len(rows) + 1, r))
                   ELSE queue[c]]
    /\ UNCHANGED <<mounted, session, props, compState, renderedShow, syncState, otherOps,
                   aux>>

\* The channel's callback runs for the next event.
Deliver(c) ==
    /\ c \in channels
    /\ queue[c] # <<>>
    /\ localNotifications' = SetState(localNotifications,
                                      onInsert(localNotifications, Head(queue[c])))
    /\ queue' = [queue EXCEPT ![c] = Tail(queue[c])]
    /\ delivered' = delivered \cup {Head(queue[c]).id}
    /\ UNCHANGED <<mounted, session, props, localShowNotifications, renderedShow,
                   syncState, rows, nEvents, otherOps,
                   role, renderedProfileLink, nToggles>>
    /\ renderedNotifications' = IF mounted THEN notifications' ELSE renderedNotifications

\* ----------------------------------------------------------- mark as read
\* Click on an entry of the open dropdown: handleMarkNotificationAsRead(id) up
\* to its await: the call of the parent's handler if one is supplied, else the
\* update, which the store runs and answers with or without an error.
HandleMarkNotificationAsRead(m, notificationId, ok) ==
    /\ mounted
    /\ marks[m].pc = "idle"
    /\ \A k \in MarkOps : k < m => marks[k].pc # "idle"
    /\ showNotifications
    /\ notificationId \in Ids(notifications)
    /\ Event
    /\ IF externalMarkNotificationAsRead
       THEN /\ ok
            /\ marks' = [marks EXCEPT ![m] = [pc |-> "external", id |-> notificationId,
                                              error |-> FALSE,
                                              local |-> ~externalNotifications.supplied]]
            /\ externalCalls' = "markNotificationAsRead"
            /\ UNCHANGED rows
       ELSE /\ marks' = [marks EXCEPT ![m] = [pc |-> "update", id |-> notificationId,
                                              error |-> ~ok,
                                              local |-> ~externalNotifications.supplied]]
            /\ rows' = IF ok THEN UpdateRead(rows, notificationId) ELSE rows
            /\ UNCHANGED externalCalls
    /\ UNCHANGED <<mounted, session, props, compState, renderedShow, syncState, queue,
                   logouts, router,
                   aux>>

\* the handler without the return after the parent's handler: the update is sent too
ExternalMarkFallsThrough(m) ==
    /\ marks[m].pc = "external"
    /\ marks' = [marks EXCEPT ![m].pc = "update"]
    /\ rows' = UpdateRead(rows, marks[m].id)
    /\ UNCHANGED <<mounted, session, props, compState, renderedShow, syncState, queue,
                   nEvents, logouts, router, externalCalls, aux>>

\* await externalMarkNotificationAsRead(notificationId); return
ExternalMarkResolved(m) ==
    /\ marks[m].pc = "external"
    /\ marks' = [marks EXCEPT ![m].pc = "delegated"]
    /\ UNCHANGED <<mounted, session, props, compState, renderedShow, syncState, queue,
                   rows, nEvents, logouts, router, externalCalls,
                   aux>>

\* no error: setLocalNotifications((prev) => prev.filter(...))
MarkReadSuccess(m) ==
    /\ marks[m].pc = "update"
    /\ ~marks[m].error
    /\ localNotifications' = SetState(localNotifications,
                                      Filter(localNotifications, marks[m].id))
    /\ marks' = [marks EXCEPT ![m].pc = "done"]
    /\ UNCHANGED <<mounted, session, props, localShowNotifications, renderedShow,
                   syncState, queue, rows, nEvents, logouts, router, externalCalls,
                   role, renderedProfileLink, nToggles, delivered>>
    /\ renderedNotifications' = IF mounted THEN notifications' ELSE renderedNotifications

\* the error branch without its return: the entry is removed all the same
MarkReadErrorFallsThrough(m) ==
    /\ marks[m].pc = "update"
    /\ marks[m].error
    /\ localNotifications' = SetState(localNotifications,
                                      Filter(localNotifications, marks[m].id))
    /\ marks' = [marks EXCEPT ![m].pc = "done"]
    /\ UNCHANGED <<mounted, session, props, localShowNotifications, renderedShow,
                   syncState, queue, rows, nEvents, logouts, router, externalCalls,
                   role, renderedProfileLink, nToggles, delivered>>
    /\ renderedNotifications' = IF mounted THEN notifications' ELSE renderedNotifications

\* if (error) { console.error(...); return; }
MarkReadError(m) ==
    /\ marks[m].pc = "update"
    /\ marks[m].error
    /\ marks' = [marks EXCEPT ![m].pc = "done"]
    /\ UNCHANGED <<mounted, session, props, compState, renderedShow, syncState, queue,
                   rows, nEvents, logouts, router, externalCalls,
                   aux>>

\* ----------------------------------------------------------------- logout
\* Click on the logout button: handleLogout() up to await signOut().
HandleLogout(l) ==
    /\ mounted
    /\ logouts[l] = "idle"
    /\ \A k \in LogoutOps : k < l => logouts[k] # "idle"
    /\ Event
    /\ logouts' = [logouts EXCEPT ![l] = "signOut"]
    /\ UNCHANGED <<mounted, session, props, compState, renderedShow, syncState, queue,
                   rows, marks, router, externalCalls,
                   aux>>

\* a handler that returns when signOut() reports an error
AfterSignOutReturnsOnError(calls, error) ==
    IF error THEN calls ELSE calls \o <<"push /", "refresh">>

\* router.push('/'); router.refresh()
AfterSignOut(calls, error) == calls \o <<"push /", "refresh">>

\* signOut() resolved, with or without an error (a sign-out that succeeded
\* ended the session)
SignOutResolved(l, ok) ==
    /\ logouts[l] = "signOut"
    /\ session' = IF ok THEN FALSE ELSE session
    /\ router' = AfterSignOut(router, ~ok)
    /\ logouts' = [logouts EXCEPT ![l] = "done"]
    /\ UNCHANGED <<mounted, props, compState, renderedShow, syncState, queue,
                   rows, nEvents, marks, externalCalls,
                   aux>>

\* ----------------------------------------------------------------- toggle
\* the handler without the return after the parent's toggle: the local flag flips too
HandleToggleFallsThrough ==
    /\ mounted
    /\ Event
    /\ externalCalls' = IF externalToggleNotifications THEN "toggleNotifications"
                        ELSE externalCalls
    /\ localShowNotifications' = ~renderedShow
    /\ nToggles' = nToggles + 1
    /\ UNCHANGED <<mounted, session, props, localNotifications, renderedShow, syncState,
                   queue, rows, marks, logouts, router,
                   role, renderedProfileLink, delivered>>
    /\ UNCHANGED renderedNotifications

\* Click on the bell: handleToggleNotifications(), with the value of
\* localShowNotifications its closure captured at the last render.
HandleToggleNotifications ==
    /\ mounted
    /\ Event
    /\ IF externalToggleNotifications
       THEN /\ externalCalls' = "toggleNotifications"
            /\ UNCHANGED <<localShowNotifications, nToggles>>
       ELSE /\ localShowNotifications' = ~renderedShow
            /\ nToggles' = nToggles + 1
            /\ UNCHANGED externalCalls
    /\ UNCHANGED <<mounted, session, props, localNotifications, renderedShow, syncState,
                   queue, rows, marks, logouts, router,
                   role, renderedProfileLink, delivered>>
    /\ UNCHANGED renderedNotifications

\* ------------------------------------------------------------------- Next
Next ==
    \/ \E e \in ListValues :
          SetProps(e, externalToggleNotifications, externalMarkNotificationAsRead,
                   externalShowNotifications)
    \/ \E t \in BOOLEAN :
          SetProps(externalNotifications, t, externalMarkNotificationAsRead,
                   externalShowNotifications)
    \/ \E m \in BOOLEAN :
          SetProps(externalNotifications, externalToggleNotifications, m,
                   externalShowNotifications)
    \/ \E f \in FlagValues :
          SetProps(externalNotifications, externalToggleNotifications,
                   externalMarkNotificationAsRead, f)
    \/ \E r \in Roles : SetRole(r)
    \/ Unmount
    \/ Render
    \/ \E a \in Acts : InitializeSubscribe(a)
    \/ \E a \in Acts : InitializeNoSession(a)
    \/ \E a \in Acts, ok \in BOOLEAN : FetchQuery(a, ok)
    \/ \E a \in Acts : FetchNoSession(a)
    \/ \E a \in Acts : FetchSuccess(a)
    \/ \E a \in Acts : FetchError(a)
    \/ \E r \in BOOLEAN : StoreInsert(r)
    \/ \E c \in Acts : Deliver(c)
    \/ \E m \in MarkOps, n \in 1..(Len(rows) + 1), ok \in BOOLEAN :
          HandleMarkNotificationAsRead(m, n, ok)
    \/ \E m \in MarkOps : ExternalMarkResolved(m)
    \/ \E m \in MarkOps : MarkReadSuccess(m)
    \/ \E m \in MarkOps : MarkReadError(m)
    \/ \E l \in LogoutOps : HandleLogout(l)
    \/ \E l \in LogoutOps, ok \in BOOLEAN : SignOutResolved(l, ok)
    \/ HandleToggleNotifications

Spec == Init /\ [][Next]_vars

\* the sign-out call of a logout completes (the promise of signOut() settles)
LiveSpec == Spec /\ WF_vars(\E l \in LogoutOps, ok \in BOOLEAN : SignOutResolved(l, ok))

\* the component mounted against the table of LimitInit
LimitSpec == LimitInit /\ [][Next]_vars

\* ================================================================= claims
\* the component shows its own list: it is mounted and no list prop is supplied
LocalMode == mounted /\ ~externalNotifications.supplied

\* a step in which run a of fetchNotifications() sends its query
QuerySent(a) == acts[a].pc = "fetchSession" /\ acts'[a].pc \in {"data", "error"}
\* a step in which mark-read m sends its update
UpdateSent(m) == marks[m].pc # "update" /\ marks'[m].pc = "update"
\* a step in which the update of mark-read m has come back without / with an error
UpdateSucceeded(m) == marks[m].pc = "update" /\ ~marks[m].error /\ marks'[m].pc = "done"
UpdateFailed(m) == marks[m].pc = "update" /\ marks[m].error /\ marks'[m].pc = "done"

\* C1: a deactivation (unmount, or the effect re-run on a change of the list
\* prop) releases the channel the deactivated activation opened: that channel
\* is not subscribed after the step.
C1_DeactivationReleases ==
    [][(activeAct # 0 /\ activeAct' # activeAct) => activeAct \notin channels']_vars

\* C2: at most one realtime channel opened by the component is subscribed.
C2_AtMostOneChannel == Cardinality(channels) <= 1

\* C3: in local mode the displayed list holds no notification with is_read = true.
C3_DisplayedUnread ==
    LocalMode => \A i \in 1..Len(notifications) : ~notifications[i].is_read

\* C4: in local mode, when the update of a mark-read on id n has succeeded and
\* the handler has removed it, no entry with id n is in the displayed list.
C4_MarkReadEvicts ==
    [][\A m \in MarkOps :
         (UpdateSucceeded(m) /\ LocalMode)
            => marks[m].id \notin Ids(notifications')]_vars

\* a successful mark-read has removed its entry from a displayed local list
\* that holds other entries
C4_Witness ==
    \E m \in MarkOps :
        /\ marks[m].pc = "done" /\ ~marks[m].error /\ marks[m].local
        /\ LocalMode
        /\ notifications # <<>>
        /\ marks[m].id \notin Ids(notifications)

\* C5: in local mode (the entry was clicked in the local list, and the local
\* list is displayed when the update has come back) a successful mark-read
\* decreases the badge count by exactly one.
C5_BadgeDecreasesByOne ==
    [][\A m \in MarkOps :
         (UpdateSucceeded(m) /\ marks[m].local /\ LocalMode)
            => badge' = badge - 1]_vars

\* C6: a mark-read whose update returned an error leaves the displayed list
\* and the badge count unchanged, and sends no further update.
C6_FailedMarkReadKeeps ==
    [][\A m \in MarkOps :
         UpdateFailed(m)
            => /\ notifications' = notifications
               /\ badge' = badge
               /\ \A k \in MarkOps : ~UpdateSent(k)]_vars

\* a failed mark-read has ended and its notification is still displayed
C6_Witness ==
    \E m \in MarkOps :
        /\ marks[m].pc = "done" /\ marks[m].error /\ marks[m].local
        /\ LocalMode
        /\ marks[m].id \in Ids(notifications)

\* C7: while an external notification list is supplied, no channel is opened
\* and no query is sent.
C7_NoSyncWhileExternal ==
    [][(externalNotifications.supplied /\ externalNotifications'.supplied)
          => /\ channels' \subseteq channels
             /\ \A a \in Acts : ~QuerySent(a)]_vars

\* C8 (as claimed): with any one notification prop supplied the component
\* opens no channel, sends no query or update, displays the external list and
\* leaves its local list and local visibility flag alone.
AnyExternal ==
    \/ externalNotifications.supplied
    \/ externalToggleNotifications
    \/ externalMarkNotificationAsRead
    \/ externalShowNotifications.supplied

C8_FullyExternal ==
    [][(AnyExternal /\ AnyExternal')
          => /\ channels' \subseteq channels
             /\ \A a \in Acts : ~QuerySent(a)
             /\ \A m \in MarkOps : ~UpdateSent(m)
             /\ localNotifications' = localNotifications
             /\ localShowNotifications' = localShowNotifications]_vars

\* C8 (amended): each notification prop takes over its own local counterpart
\* only. With a mark-read handler supplied a click sends no update and leaves
\* the local list alone; with a toggle function supplied a toggle leaves the
\* local visibility flag alone; and local synchronisation depends on the list
\* prop alone:
\* a mounted component that is supplied no list has an activation in place,
\* whatever other props are supplied.
C8_PerPropOwnership ==
    [][/\ externalToggleNotifications
            => localShowNotifications' = localShowNotifications
       /\ \A m \in MarkOps :
            (externalMarkNotificationAsRead /\ marks[m].pc = "idle"
                                            /\ marks'[m].pc # "idle")
               => /\ marks'[m].pc = "external"
                  /\ rows' = rows
                  /\ localNotifications' = localNotifications
       /\ LocalMode => activeAct # 0]_vars

\* only a toggle function is supplied: the parent's toggle has been called,
\* the local flag is untouched, and the component has subscribed its own
\* channel and fetched its own list
C8_Witness ==
    /\ externalToggleNotifications
    /\ ~externalNotifications.supplied
    /\ ~externalMarkNotificationAsRead
    /\ ~externalShowNotifications.supplied
    /\ externalCalls = "toggleNotifications"
    /\ ~localShowNotifications
    /\ channels # {}
    /\ localNotifications # <<>>

DoneLogouts == Cardinality({ l \in LogoutOps : logouts[l] = "done" })

RouterFollowsSignOut ==
    /\ Len(router) = 2 * DoneLogouts
    /\ \A i \in 1..Len(router) :
         router[i] = IF i % 2 = 1 THEN "push /" ELSE "refresh"

C10_LogoutNavigates ==
    /\ []RouterFollowsSignOut
    /\ \A l \in LogoutOps : (logouts[l] = "signOut") ~> (logouts[l] = "done")

\* a logout whose sign-out failed (the session is still there) has navigated
\* to the root route and requested the refresh
C10_Witness ==
    /\ session
    /\ \E l \in LogoutOps : logouts[l] = "done"
    /\ router = <<"push /", "refresh">>

\* C11: toggling twice returns the dropdown to its original visibility, from
\* either state, re-rendered in between or not: the local flag, hidden at
\* mount, is shown exactly after an odd number of toggles.
C11_TwoTogglesRestore == localShowNotifications = (nToggles % 2 = 1)

\* C12: a fetch whose query returned an error leaves the local list as it
\* was, ends normally and sends no further query.
C12_FailedFetchKeeps ==
    [][\A a \in Acts :
         (acts[a].pc = "error" /\ acts'[a].pc # "error")
            => /\ localNotifications' = localNotifications
               /\ acts'[a].pc = "failed"
               /\ \A b \in Acts : ~QuerySent(b)]_vars

\* a fetch has failed and the list displayed still holds what it held
C12_Witness ==
    /\ LocalMode
    /\ \E a \in Acts : acts[a].pc = "failed"
    /\ localNotifications # <<>>

\* C13: with a mark-read handler supplied, a click calls that handler and,
\* until and when that call returns, the component sends no update, changes no
\* row and leaves its local list alone.
C13_DelegatesMarkRead ==
    [][\A m \in MarkOps :
         /\ (externalMarkNotificationAsRead /\ marks[m].pc = "idle"
                                            /\ marks'[m].pc # "idle")
               => /\ marks'[m].pc = "external"
                  /\ externalCalls' = "markNotificationAsRead"
                  /\ rows' = rows
                  /\ localNotifications' = localNotifications
         /\ (marks[m].pc = "external" /\ marks'[m].pc # "external")
               => /\ marks'[m].pc = "delegated"
                  /\ \A k \in MarkOps : ~UpdateSent(k)
                  /\ rows' = rows
                  /\ localNotifications' = localNotifications]_vars

\* a click on an entry of the local list was delegated and has returned: the
\* entry is still in the local list and its row is still unread
C13_Witness ==
    \E m \in MarkOps :
        /\ marks[m].pc = "delegated"
        /\ marks[m].local
        /\ marks[m].id \in Ids(localNotifications)
        /\ marks[m].id \in 1..Len(rows)
        /\ ~rows[marks[m].id].is_read

\* a step in which run a of fetchNotifications() stores its result
FetchResolved(a) == acts[a].pc = "data" /\ acts'[a].pc = "done"

\* the ids of the unread rows of user u in the table
UnreadOf(tbl, u) == { i \in 1..Len(tbl) : tbl[i].user = u /\ ~tbl[i].is_read }

\* C14: in local mode the local list never holds more than 10 entries.
C14_AtMostLimit == LocalMode => Len(localNotifications) <= Limit

C16_ProfileLinkIffEmployee == mounted => (renderedProfileLink <=> role = "employee")

\* an employee sees the link after the dropdown was opened on a fetched list
C16_Witness ==
    /\ LocalMode
    /\ role = "employee"
    /\ renderedProfileLink
    /\ nToggles > 0
    /\ showNotifications
    /\ localNotifications # <<>>

\* C17: the result of a fetch replaces the whole list without merging: a row
\* the channel has delivered and the result does not hold is not in the list
\* once the fetch has resolved.
C17_FetchDropsPrepended ==
    [][\A a \in Acts :
         (mounted /\ FetchResolved(a))
            => \A r \in delivered :
                 r \notin Ids(acts[a].data) => r \notin Ids(localNotifications')]_vars

\* a row of the user, still unread, was delivered by the channel and the fetch
\* that resolved afterwards has removed it from the list
C17_Witness ==
    /\ LocalMode
    /\ \E a \in Acts : acts[a].pc = "done"
    /\ \E r \in delivered :
          /\ rows[r].user = Me
          /\ ~rows[r].is_read
          /\ r \notin Ids(localNotifications)

\* C18 as stated: a fetch that resolves after its run was deactivated, the
\* component in external mode or removed, overwrites the local list with its
\* result.
C18_LateFetchOverwrites ==
    [][\A a \in Acts :
         (FetchResolved(a) /\ a # activeAct)
            => localNotifications' = acts[a].data]_vars

\* C18 amended: a fetch that resolves after its run was deactivated overwrites
\* the local list with its result as long as the component is mounted.
C18_LateFetchOverwritesMounted ==
    [][\A a \in Acts :
         (mounted /\ FetchResolved(a) /\ a # activeAct)
            => localNotifications' = acts[a].data]_vars

\* the component is in external mode and its local list is the result of a
\* fetch that resolved after the move
C18_Witness ==
    /\ mounted
    /\ externalNotifications.supplied
    /\ \E a \in Acts : acts[a].pc = "done" /\ acts[a].late
    /\ delivered = {}
    /\ localNotifications # <<>>

\* C19: whenever an external list is supplied, the list displayed and the
\* number on the badge are those of the external list, whatever happens to the
\* local list.
C19_ExternalDisplayed ==
    (mounted /\ externalNotifications.supplied)
        => /\ renderedNotifications = externalNotifications.list
           /\ renderedBadge = Len(externalNotifications.list)

\* an external list is displayed while the local list holds a row the channel
\* has delivered and the external list does not hold
C19_Witness ==
    /\ mounted
    /\ externalNotifications.supplied
    /\ renderedNotifications = externalNotifications.list
    /\ \E r \in delivered :
          /\ r \in Ids(localNotifications)
          /\ r \notin Ids(externalNotifications.list)

\* C20: in local mode no two entries of the local list have the same id.
C20_UniqueIds ==
    LocalMode =>
        \A i, j \in 1..Len(localNotifications) :
            localNotifications[i].id = localNotifications[j].id => i = j

====
